---- MODULE Spec2Model ----
(***************************************************************************)
(* The RoadRunner MCP bridge (package mcp): the tool registry and the      *)
(* session registry guarded by Plugin.mu, the RPC surface (DeclareTools,   *)
(* RemoveTools), the per-tool handler installed in the protocol engine,    *)
(* the dispatcher sendEvent that makes one round trip to the worker pool,  *)
(* and the SSE connection handler with its authentication handshake.       *)
(*                                                                         *)
(* Goroutines are processes: one per SSE connection (named by the session  *)
(* id its handler generates), one per tool invocation, one RPC client.     *)
(* The worker pool and the protocol engine are external: the pool answers  *)
(* an Exec with any outcome, the engine keeps the tools AddTool gave it.   *)
(***************************************************************************)
EXTENDS Integers, Sequences, FiniteSets, TLC

(* ------------------------------ bounds -------------------------------- *)

\* time.Now() is read from a clock that ticks at most MaxClock times
MaxClock == 1
\* a DeclareTools or RemoveTools request lists at most MaxBatch entries
MaxBatch == 2
\* a worker's tool response holds at most MaxContent content items
MaxContent == 1
\* ... and at most MaxItems items where only the conversion of the content is
\* examined (SpecContent)
MaxItems == 2
\* the response stream of one Exec holds at most MaxStream items
MaxStream == 2

\* session ids, one per incoming connection (uuid.New() in the handler)
SessionIds == {"s1", "s2"}
\* tool invocations the protocol engine routes to a handler
Calls == {"c1"}
ToolNames == {"t1", "t2"}
Descriptions == {"d1", "d2"}
\* what a worker may return as the session token ("" is allowed)
Tokens == {"", "tok"}
\* the text a worker puts into a content item
Texts == {"x"}

None == "none"
RpcProc == "rpc"
Procs == SessionIds \cup Calls \cup {RpcProc, "peer", "collect", "stop"}

(* ------------------------- program constants -------------------------- *)

EventClientConnected == "ClientConnected"
EventCallTool == "CallTool"
UnknownSession == "unknown"

VARIABLES
    authEnabled,  \* cfg.Auth.Enabled
    mu,           \* Plugin.mu: [writer, readers, pending]
    tools,        \* Plugin.tools: the entries of the registry, [name, desc]
    engine,       \* the tools the protocol engine holds (mcp.AddTool)
    sessions,     \* Plugin.sessions: session id -> SessionInfo
    now,          \* the clock time.Now() reads
    conn,         \* per connection: the state of its serveSSE handler
    call,         \* per tool invocation: the state of its handler
    rpc,          \* the RPC client and the call it is in
    peer,         \* a second RPC client and the RemoveTools call it is in
    collect,      \* the metrics collector (StatsExporter.Collect)
    stdio,        \* the stdio transport (serveStdio) and its one connection
    stop          \* Plugin.Stop: where the call is, and whether its ctx is done

vars == <<authEnabled, mu, tools, engine, sessions, now, conn, call, rpc,
          peer, collect, stdio, stop>>

(* --------------------------- sync.RWMutex ----------------------------- *)

\* Lock succeeds when nobody holds the mutex; RLock when no writer holds it
\* and none is blocked in Lock (pending): once a goroutine waits in Lock for
\* the readers to leave, a new RLock waits behind it
CanLock(m) == m.writer = None /\ m.readers = {}
CanRLock(m) == m.writer = None /\ m.pending = {}

\* a goroutine calls Lock and blocks in it
LockCall(m, p) == [m EXCEPT !.pending = @ \cup {p}]
\* the write lock is not taken
LockNotTaken(m, p) == m
Lock(m, p) == [m EXCEPT !.writer = p, !.pending = @ \ {p}]
Unlock(m, p) == [m EXCEPT !.writer = None]
RLock(m, p) == [m EXCEPT !.readers = @ \cup {p}]
\* the read lock is never released
RUnlockMissing(m, p) == m
RUnlock(m, p) == [m EXCEPT !.readers = @ \ {p}]

Holds(p) == mu.writer = p \/ p \in mu.readers

(* --------------------------- session registry ------------------------- *)

\* SessionInfo as trackSession builds it (the fields the bridge reads back)
SessionInfo(id, token, transport, t) ==
    [ID |-> id, Token |-> token, LastActivity |-> t, Transport |-> transport]

\* p.sessions[sessionID] = info
trackSession(ss, id, token, transport, t) ==
    [x \in DOMAIN ss \cup {id} |->
        IF x = id THEN SessionInfo(id, token, transport, t) ELSE ss[x]]

\* delete(p.sessions, sessionID)
removeSession(ss, id) == [x \in DOMAIN ss \ {id} |-> ss[x]]

\* the activity time is stored whether or not the session exists
updateSessionActivityUpsert(ss, id, t) ==
    [x \in DOMAIN ss \cup {id} |->
        IF x = id
        THEN IF id \in DOMAIN ss THEN [ss[id] EXCEPT !.LastActivity = t]
             ELSE [ID |-> id, Token |-> "", LastActivity |-> t, Transport |-> ""]
        ELSE ss[x]]

\* the activity time is not stored
updateSessionActivityNoOp(ss, id, t) == ss

\* if info, ok := p.sessions[sessionID]; ok { info.LastActivity = time.Now() }
updateSessionActivity(ss, id, t) ==
    IF id \in DOMAIN ss THEN [ss EXCEPT ![id].LastActivity = t] ELSE ss

\* sessionInfo := p.sessions[sessionID]: the entry, or nothing (nil)
LookupSession(ss, id) == IF id \in DOMAIN ss THEN {ss[id]} ELSE {}

(* ------------------------------ sendEvent ----------------------------- *)

\* the token header is left out
BuildHeadersNoToken(eventName, sessionID, info) ==
    {<<"X-MCP-Event", eventName>>, <<"X-Session-ID", sessionID>>,
     <<"Content-Type", "application/json">>, <<"X-MCP-Method", "POST">>}

\* the session id header is set only for a session the registry holds
BuildHeadersKnownSession(eventName, sessionID, info) ==
    {<<"X-MCP-Event", eventName>>,
     <<"Content-Type", "application/json">>, <<"X-MCP-Method", "POST">>}
    \cup {<<"X-Session-ID", sessionID>> : i \in info}
    \cup {<<"X-Client-Token", i.Token>> : i \in {j \in info : j.Token # ""}}

\* the header fields of the envelope, as <<name, value>> pairs
BuildHeaders(eventName, sessionID, info) ==
    {<<"X-MCP-Event", eventName>>, <<"X-Session-ID", sessionID>>,
     <<"Content-Type", "application/json">>, <<"X-MCP-Method", "POST">>}
    \cup {<<"X-Client-Token", i.Token>> : i \in {j \in info : j.Token # ""}}

HeaderValues(hdr, name) == {h[2] : h \in {g \in hdr : g[1] = name}}

\* what one Exec on the pool ends with: Exec's own error, or the first item
\* of the response stream (an error or a body), or a stream closed empty
ExecKinds == {"execErr", "respErr", "closed", "body"}

\* the error sendEvent returns, as the chain of wrapped messages (<<>> is nil)
SendEventError(kind, raw) ==
    CASE kind = "execErr" -> <<"mcp_send_event", "worker execution failed", raw>>
      [] kind = "respErr" -> <<"mcp_send_event", raw>>
      [] kind = "closed" -> <<"mcp_send_event", "no response from worker">>
      [] OTHER -> << >>

\* what the pool or the worker writes into an error (raw diagnostics)
RawTexts == {"boom"}
\* the text of an outcome that carries none
NoRaw == "boom"

(* ---------------- the SSE connection handler (serveSSE) --------------- *)

\* ClientConnectedResponse as json.Unmarshal leaves it; valid = FALSE is a
\* body that does not decode
AuthBodies ==
    [valid : {TRUE}, allowed : BOOLEAN, token : Tokens]
    \cup {[valid |-> FALSE, allowed |-> FALSE, token |-> ""]}

\* the body of an outcome that carries none
NoAuthBody == [valid |-> FALSE, allowed |-> FALSE, token |-> ""]

\* the error authenticateSession returns for a body (<<>> is nil)
AuthBodyError(body) ==
    IF ~body.valid THEN <<"mcp_authenticate_session", "invalid worker response">>
    ELSE IF ~body.allowed THEN <<"mcp_authenticate_session", "authentication failed">>
    ELSE << >>

\* the token authenticateSession returns with a nil error
AuthToken(body) == body.token

IdleConn ==
    [pc |-> "idle", info |-> {}, hdr |-> {}, execs |-> 0, tok |-> "", err |-> << >>]

\* the handshake is made whether or not authentication is enabled
ConnBeginAlwaysAuth(s) ==
    /\ conn[s].pc = "idle"
    /\ CanRLock(mu)
    /\ mu' = RLock(mu, s)
    /\ conn' = [conn EXCEPT ![s].pc = "locked",
                            ![s].info = LookupSession(sessions, s)]
    /\ UNCHANGED <<authEnabled, tools, engine, sessions, now, call, rpc, peer, collect, stdio, stop>>

\* a request arrives; with authentication enabled authenticateSession calls
\* sendEvent, which takes the read lock and reads the session entry
ConnBegin(s) ==
    /\ conn[s].pc = "idle"
    /\ IF authEnabled
       THEN /\ CanRLock(mu)
            /\ mu' = RLock(mu, s)
            /\ conn' = [conn EXCEPT ![s].pc = "locked",
                                    ![s].info = LookupSession(sessions, s)]
       ELSE /\ conn' = [conn EXCEPT ![s].pc = "track", ![s].tok = ""]
            /\ UNCHANGED mu
    /\ UNCHANGED <<authEnabled, tools, engine, sessions, now, call, rpc, peer, collect, stdio, stop>>

\* sendEvent releases the read lock, builds the headers and calls pool.Exec
ConnExec(s) ==
    /\ conn[s].pc = "locked"
    /\ mu' = RUnlock(mu, s)
    /\ conn' = [conn EXCEPT
                  ![s].pc = "wait",
                  ![s].info = {},
                  ![s].hdr = BuildHeaders(EventClientConnected, s, conn[s].info),
                  ![s].execs = @ + 1]
    /\ UNCHANGED <<authEnabled, tools, engine, sessions, now, call, rpc, peer, collect, stdio, stop>>

\* what the handler answers when authenticateSession returned an error: the
\* error goes to the log, the client is sent a fixed text with status 401
AuthFailedReply == <<"Authentication failed">>

\* the pool answers; sendEvent returns, authenticateSession decodes, and the
\* handler either goes on to track the session or answers 401 and returns
ConnAuthResult(s) ==
    /\ conn[s].pc = "wait"
    /\ \E kind \in ExecKinds :
       \E raw \in IF kind \in {"execErr", "respErr"} THEN RawTexts ELSE {NoRaw},
          body \in IF kind = "body" THEN AuthBodies ELSE {NoAuthBody} :
         /\ LET sendErr == SendEventError(kind, raw)
                err == IF sendErr # << >>
                       THEN <<"mcp_authenticate_session">> \o sendErr
                       ELSE AuthBodyError(body)
            IN conn' = [conn EXCEPT
                          ![s].pc = IF err = << >> THEN "track" ELSE "refused",
                          ![s].tok = IF err = << >> THEN AuthToken(body) ELSE "",
                          ![s].err = IF err = << >> THEN << >> ELSE AuthFailedReply]
    /\ UNCHANGED <<authEnabled, mu, tools, engine, sessions, now, call, rpc, peer, collect, stdio, stop>>

\* trackSession under the write lock, then mcpServer.Connect: the transport
\* is set up (ok) or fails (the handler answers 500 and returns)
ConnTrack(s) ==
    /\ conn[s].pc = "track"
    /\ CanLock(mu)
    /\ mu' = Unlock(Lock(mu, s), s)
    /\ sessions' = trackSession(sessions, s, conn[s].tok, "sse", now)
    /\ \E ok \in BOOLEAN :
         conn' = [conn EXCEPT ![s].pc = IF ok THEN "connected" ELSE "remove"]
    /\ UNCHANGED <<authEnabled, tools, engine, now, call, rpc, peer, collect, stdio, stop>>

\* the connection ends: the handler returns and its deferred call runs
ConnDisconnect(s) ==
    /\ conn[s].pc = "connected"
    /\ conn' = [conn EXCEPT ![s].pc = "remove"]
    /\ UNCHANGED <<authEnabled, mu, tools, engine, sessions, now, call, rpc, peer, collect, stdio, stop>>

\* the deferred removeSession, under the write lock; the handler has
\* returned and its sessionToken is gone
ConnRemove(s) ==
    /\ conn[s].pc = "remove"
    /\ CanLock(mu)
    /\ mu' = Unlock(Lock(mu, s), s)
    /\ sessions' = removeSession(sessions, s)
    /\ conn' = [conn EXCEPT ![s].pc = "closed", ![s].tok = ""]
    /\ UNCHANGED <<authEnabled, tools, engine, now, call, rpc, peer, collect, stdio, stop>>

(* ------------------ the stdio transport (serveStdio) ------------------ *)

\* the session id serveStdio generates
StdioId == "s0"
\* cfg.Auth.SkipForStdio after InitDefaults, which sets it whatever was
\* configured
SkipForStdio == TRUE

\* skipConfigured: auth.skip_for_stdio as the configuration file gives it,
\* the value InitDefaults overwrites
IdleStdio == [pc |-> "idle", tok |-> "", skipConfigured |-> TRUE]

\* serveStdio starts: authentication only if enabled and not skipped (with
\* SkipForStdio always set, the branch that authenticates is never taken)
StdioBegin ==
    /\ stdio.pc = "idle"
    /\ stdio' = [stdio EXCEPT
                   !.pc = IF authEnabled /\ ~SkipForStdio THEN "auth" ELSE "track"]
    /\ UNCHANGED <<authEnabled, mu, tools, engine, sessions, now, conn, call, rpc,
                   peer, collect, stop>>

\* trackSession under the write lock, then mcpServer.Connect, which fails
\* (serveStdio returns the error) or starts serving the connection
StdioTrack ==
    /\ stdio.pc = "track"
    /\ CanLock(mu)
    /\ mu' = Unlock(Lock(mu, StdioId), StdioId)
    /\ sessions' = trackSession(sessions, StdioId, stdio.tok, "stdio", now)
    /\ \E ok \in BOOLEAN :
         stdio' = [stdio EXCEPT !.pc = IF ok THEN "connected" ELSE "remove"]
    /\ UNCHANGED <<authEnabled, tools, engine, now, conn, call, rpc, peer, collect, stop>>

\* Connect hands back the session it started (the value serveStdio discards)
\* while the connection is being served: serveStdio returns nil
StdioReturn ==
    /\ stdio.pc = "connected"
    /\ stdio' = [stdio EXCEPT !.pc = "returned"]
    /\ UNCHANGED <<authEnabled, mu, tools, engine, sessions, now, conn, call, rpc,
                   peer, collect, stop>>

\* the connection ends (the client closes the pipe)
StdioDisconnect ==
    /\ stdio.pc \in {"connected", "detached"}
    /\ stdio' = [stdio EXCEPT !.pc = IF stdio.pc = "connected" THEN "remove" ELSE "closed"]
    /\ UNCHANGED <<authEnabled, mu, tools, engine, sessions, now, conn, call, rpc,
                   peer, collect, stop>>

\* the deferred removeSession, under the write lock, as serveStdio returns
StdioRemove ==
    /\ stdio.pc \in {"remove", "returned"}
    /\ CanLock(mu)
    /\ mu' = Unlock(Lock(mu, StdioId), StdioId)
    /\ sessions' = removeSession(sessions, StdioId)
    /\ stdio' = [stdio EXCEPT !.pc = IF stdio.pc = "remove" THEN "closed" ELSE "detached"]
    /\ UNCHANGED <<authEnabled, tools, engine, now, conn, call, rpc, peer, collect, stop>>

\* the stdio connection is being served by the engine
StdioLive == stdio.pc \in {"connected", "returned", "detached"}

(* ------------- the per-tool handler (createToolHandler) --------------- *)

\* MCPContent items a worker may send (the fields the handler reads)
WorkerItem(type, text, data, mimeType) ==
    [type |-> type, text |-> text, data |-> data, mimeType |-> mimeType]

WorkerItems ==
    {WorkerItem("text", t, "", "") : t \in Texts}
    \cup {WorkerItem("image", "", "AAAA", "image/png")}
    \cup {WorkerItem("resource", t, "", "text/plain") : t \in Texts}

SeqsUpTo(S, n) == UNION {[1..k -> S] : k \in 0..n}

\* CallToolResponse as json.Unmarshal leaves it; valid = FALSE is a body that
\* does not decode
ToolBodies ==
    [valid : {TRUE}, content : SeqsUpTo(WorkerItems, MaxContent), isError : BOOLEAN]
    \cup {[valid |-> FALSE, content |-> << >>, isError |-> FALSE]}

\* the items of WorkerItems and one with a type tag the handler does not know
AllWorkerItems == WorkerItems \cup {WorkerItem("audio", "y", "BBBB", "audio/wav")}

LongToolBodies ==
    [valid : {TRUE}, content : SeqsUpTo(AllWorkerItems, MaxItems), isError : BOOLEAN]
    \cup {[valid |-> FALSE, content |-> << >>, isError |-> FALSE]}

TextContent(text) == [kind |-> "TextContent", Text |-> text, Data |-> "", MIMEType |-> ""]
ImageContent(data, mimeType) ==
    [kind |-> "ImageContent", Text |-> "", Data |-> data, MIMEType |-> mimeType]

\* an item of a type that is neither text nor image loses its text
ConvertContentKnownOnly(c) ==
    CASE c.type = "text" -> TextContent(c.text)
      [] c.type = "image" -> ImageContent(c.data, c.mimeType)
      [] OTHER -> TextContent("")

\* the switch on c.Type
ConvertContent(c) ==
    CASE c.type = "text" -> TextContent(c.text)
      [] c.type = "image" -> ImageContent(c.data, c.mimeType)
      [] c.type = "resource" -> TextContent(c.text)
      [] OTHER -> TextContent(c.text)

\* the items come out in the reverse order
ConvertContentsReversed(content) ==
    [i \in 1..Len(content) |-> ConvertContent(content[Len(content) + 1 - i])]

\* mcpContent[i] = ... for i, c := range result.Content
ConvertContents(content) == [i \in 1..Len(content) |-> ConvertContent(content[i])]

\* a response marked isError is turned into an error of the handler
HandlerReturnErrorOnIsError(sendErr, body) ==
    IF sendErr # << >>
    THEN [result |-> {}, err |-> <<"tool execution failed">> \o sendErr]
    ELSE IF ~body.valid
    THEN [result |-> {}, err |-> <<"invalid worker response">>]
    ELSE IF body.isError
    THEN [result |-> {}, err |-> <<"tool reported an error">>]
    ELSE [result |-> {[Content |-> ConvertContents(body.content),
                       IsError |-> body.isError]},
          err |-> << >>]

\* what the handler returns: (mcpResult, nil, nil) or (nil, nil, err)
HandlerReturn(sendErr, body) ==
    IF sendErr # << >>
    THEN [result |-> {}, err |-> <<"tool execution failed">> \o sendErr]
    ELSE IF ~body.valid
    THEN [result |-> {}, err |-> <<"invalid worker response">>]
    ELSE [result |-> {[Content |-> ConvertContents(body.content),
                       IsError |-> body.isError]},
          err |-> << >>]

\* which part of the registries a step changed, for the step's frame
FrameOf(ss, ss2, tt, tt2, id) ==
    IF ss2 = ss /\ tt2 = tt THEN "none"
    ELSE IF /\ tt2 = tt
            /\ DOMAIN ss2 = DOMAIN ss
            /\ \A x \in DOMAIN ss :
                 /\ x # id => ss2[x] = ss[x]
                 /\ [ss2[x] EXCEPT !.LastActivity = 0] = [ss[x] EXCEPT !.LastActivity = 0]
    THEN "lastActivity"
    ELSE "other"

NoBody == [valid |-> FALSE, content |-> << >>, isError |-> FALSE]
NoReturn == [result |-> {}, err |-> << >>]

\* what pool.Exec hands back: its own error (failed, with the pool's text), or
\* a response stream, each item an error (isErr, with the worker's text) or a
\* body; the stream is closed after its last item
StreamItems ==
    {[isErr |-> TRUE, raw |-> r, body |-> NoBody] : r \in RawTexts}
    \cup {[isErr |-> FALSE, raw |-> NoRaw, body |-> b] :
            b \in {NoBody} \cup [valid : {TRUE}, content : {<< >>}, isError : BOOLEAN]}

ExecOutcomes ==
    {[failed |-> TRUE, raw |-> r, items |-> << >>] : r \in RawTexts}
    \cup {[failed |-> FALSE, raw |-> NoRaw, items |-> q] :
            q \in SeqsUpTo(StreamItems, MaxStream)}

\* the outcome of an Exec as sendEvent tells the cases apart
ExecKindOf(out) ==
    IF out.failed THEN "execErr"
    ELSE IF out.items = << >> THEN "closed"
    ELSE IF out.items[1].isErr THEN "respErr"
    ELSE "body"

\* every item of the stream is read and the last one is returned
SendEventOnLast(out) ==
    IF out.failed
    THEN [body |-> {}, err |-> SendEventError("execErr", out.raw), read |-> 0]
    ELSE IF out.items = << >>
    THEN [body |-> {}, err |-> SendEventError("closed", NoRaw), read |-> 0]
    ELSE IF out.items[Len(out.items)].isErr
    THEN [body |-> {}, err |-> SendEventError("respErr", out.items[Len(out.items)].raw),
          read |-> Len(out.items)]
    ELSE [body |-> {out.items[Len(out.items)].body}, err |-> << >>,
          read |-> Len(out.items)]

\* sendEvent from pool.Exec on: the body it returns ({} is nil), its error,
\* and the number of items it took from the stream; the range loop returns in
\* its first iteration
SendEventOn(out) ==
    IF out.failed
    THEN [body |-> {}, err |-> SendEventError("execErr", out.raw), read |-> 0]
    ELSE IF out.items = << >>
    THEN [body |-> {}, err |-> SendEventError("closed", NoRaw), read |-> 0]
    ELSE IF out.items[1].isErr
    THEN [body |-> {}, err |-> SendEventError("respErr", out.items[1].raw), read |-> 1]
    ELSE [body |-> {out.items[1].body}, err |-> << >>, read |-> 1]

\* the Exec whose outcome and return are on record: none
NoExec == {}

IdleCall ==
    [pc |-> "idle", tool |-> None, sid |-> None, ctxDone |-> FALSE,
     tracked |-> FALSE, wrote |-> "none", info |-> {}, hdr |-> {}, execs |-> 0,
     kind |-> None, body |-> NoBody, ret |-> NoReturn, exec |-> NoExec,
     on |-> None]

EngineNames == {e.name : e \in engine}
Connected == {s \in SessionIds : conn[s].pc = "connected"}

\* the engine routes a tools/call that came in on connection k to the handler
\* installed for tool t; the request's _meta carries sessionId sid or none
\* ("unknown"), and its context may already be cancelled. The handler is not
\* told k; on keeps it for the record, k ranging over Conns
CallArriveOn(c, Conns) ==
    /\ call[c].pc = "idle"
    /\ Connected # {} \/ StdioLive
    /\ \E k \in Conns, t \in EngineNames, sid \in SessionIds \cup {UnknownSession},
          cd \in BOOLEAN :
         call' = [call EXCEPT ![c].pc = "touch", ![c].tool = t,
                              ![c].sid = sid, ![c].ctxDone = cd,
                              ![c].tracked = (sid \in DOMAIN sessions),
                              ![c].on = k]
    /\ UNCHANGED <<authEnabled, mu, tools, engine, sessions, now, conn, rpc, peer, collect, stdio, stop>>

\* ... the connection left unrecorded
CallArrive(c) == CallArriveOn(c, {None})

\* p.updateSessionActivity(sessionID), under the write lock
CallTouch(c) ==
    /\ call[c].pc = "touch"
    /\ CanLock(mu)
    /\ mu' = Unlock(Lock(mu, c), c)
    /\ sessions' = updateSessionActivity(sessions, call[c].sid, now)
    /\ UNCHANGED <<authEnabled, tools, engine, now, conn, rpc, peer, collect, stdio, stop>>
    /\ call' = [call EXCEPT
                  ![c].pc = "lookup",
                  ![c].wrote = FrameOf(sessions, sessions', tools, tools', call[c].sid)]

\* sendEvent: the read lock is taken and the session entry read
CallLookup(c) ==
    /\ call[c].pc = "lookup"
    /\ CanRLock(mu)
    /\ mu' = RLock(mu, c)
    /\ call' = [call EXCEPT ![c].pc = "locked",
                            ![c].info = LookupSession(sessions, call[c].sid)]
    /\ UNCHANGED <<authEnabled, tools, engine, sessions, now, conn, rpc, peer, collect, stdio, stop>>

\* a call whose tool has left the registry is aborted before the dispatch
CallExecRegisteredOnly(c) ==
    /\ call[c].pc = "locked"
    /\ mu' = RUnlock(mu, c)
    /\ call' = IF call[c].tool \in {e.name : e \in tools}
               THEN [call EXCEPT
                       ![c].pc = "wait",
                       ![c].info = {},
                       ![c].hdr = BuildHeaders(EventCallTool, call[c].sid, call[c].info),
                       ![c].execs = @ + 1]
               ELSE [call EXCEPT
                       ![c].pc = "ret",
                       ![c].info = {},
                       ![c].ret = [result |-> {}, err |-> <<"tool not found">>]]
    /\ UNCHANGED <<authEnabled, tools, engine, sessions, now, conn, rpc, peer, collect, stdio, stop>>

\* sendEvent releases the read lock, builds the headers and calls pool.Exec
CallExec(c) ==
    /\ call[c].pc = "locked"
    /\ mu' = RUnlock(mu, c)
    /\ call' = [call EXCEPT
                  ![c].pc = "wait",
                  ![c].info = {},
                  ![c].hdr = BuildHeaders(EventCallTool, call[c].sid, call[c].info),
                  ![c].execs = @ + 1]
    /\ UNCHANGED <<authEnabled, tools, engine, sessions, now, conn, rpc, peer, collect, stdio, stop>>

\* a failed Exec is tried again
AfterExecRetry(kind) == IF kind = "execErr" THEN "locked" ELSE "ret"

\* where sendEvent goes once pool.Exec has answered: it returns, whatever the
\* answer (no branch leads back to Exec)
AfterExec(kind) == "ret"

\* the pool answers: sendEvent returns and the handler builds its result
\* (of the invocation's inputs only what the result is judged by is kept)
CallResultOf(c, Bodies) ==
    /\ call[c].pc = "wait"
    /\ \E kind \in ExecKinds :
       \E raw \in IF kind \in {"execErr", "respErr"} THEN RawTexts ELSE {NoRaw},
          body \in IF kind = "body" THEN Bodies ELSE {NoBody} :
         /\ call' = [call EXCEPT
                       ![c] = [IdleCall EXCEPT
                                 !.pc = AfterExec(kind),
                                 !.ctxDone = call[c].ctxDone,
                                 !.wrote = call[c].wrote,
                                 !.execs = call[c].execs,
                                 !.kind = kind,
                                 !.body = body,
                                 !.ret = HandlerReturn(SendEventError(kind, raw), body)]]
    /\ UNCHANGED <<authEnabled, mu, tools, engine, sessions, now, conn, rpc, peer, collect, stdio, stop>>

CallResult(c) == CallResultOf(c, ToolBodies)

\* the pool answers with an error or a whole response stream: sendEvent
\* returns and the handler builds its result
CallStreamResult(c) ==
    /\ call[c].pc = "wait"
    /\ \E out \in ExecOutcomes :
         LET sent == SendEventOn(out)
             kind == ExecKindOf(out)
             body == IF sent.body = {} THEN NoBody ELSE CHOOSE b \in sent.body : TRUE
         IN call' = [call EXCEPT
                       ![c] = [IdleCall EXCEPT
                                 !.pc = AfterExec(kind),
                                 !.ctxDone = call[c].ctxDone,
                                 !.wrote = call[c].wrote,
                                 !.execs = call[c].execs,
                                 !.kind = kind,
                                 !.body = body,
                                 !.ret = HandlerReturn(sent.err, body),
                                 !.exec = {[out |-> out, sent |-> sent]}]]
    /\ UNCHANGED <<authEnabled, mu, tools, engine, sessions, now, conn, rpc, peer, collect, stdio, stop>>

\* the engine takes the handler's result; the invocation is over
CallReturn(c) ==
    /\ call[c].pc = "ret"
    /\ call' = [call EXCEPT ![c] = IdleCall]
    /\ UNCHANGED <<authEnabled, mu, tools, engine, sessions, now, conn, rpc, peer, collect, stdio, stop>>

\* the caller cancels the invocation's context, or its deadline passes, while
\* sendEvent is waiting for the pool; sendEvent has no select on ctx.Done(),
\* so nothing in the handler reacts
CallCancel(c) ==
    /\ call[c].pc = "wait"
    /\ ~call[c].ctxDone
    /\ call' = [call EXCEPT ![c].ctxDone = TRUE]
    /\ UNCHANGED <<authEnabled, mu, tools, engine, sessions, now, conn, rpc, peer, collect, stdio, stop>>

\* time passes
Tick ==
    /\ now < MaxClock
    /\ now' = now + 1
    /\ UNCHANGED <<authEnabled, mu, tools, engine, sessions, conn, call, rpc, peer, collect, stdio, stop>>

(* ------------------ the RPC surface (rpcService) ---------------------- *)

\* the registry is a Go map: one entry per key, a store replaces the entry
MapHas(reg, name) == \E e \in reg : e.name = name
MapPut(reg, name, desc) ==
    {e \in reg : e.name # name} \cup {[name |-> name, desc |-> desc]}
\* a delete of an absent key clears the map
MapDeleteOrClear(reg, name) ==
    IF \E e \in reg : e.name = name THEN {e \in reg : e.name # name} ELSE {}
MapDelete(reg, name) == {e \in reg : e.name # name}
MapKeys(reg) == {e.name : e \in reg}

\* mcp.AddTool(server, tool, handler): the engine holds one tool per name
AddTool(eng, name, desc) ==
    {e \in eng : e.name # name} \cup {[name |-> name, desc |-> desc]}

\* the requests an RPC client may make
\* InputSchema: a schema the engine accepts, or one it does not (its type is
\* not "object")
GoodSchema == "object"
BadSchema == "string"
ToolDefinitions == [name : ToolNames, desc : Descriptions, schema : {GoodSchema}]
\* requests that may hold malformed entries
AnyToolDefinitions == [name : ToolNames, desc : {"d1"}, schema : {GoodSchema, BadSchema}]
AnyDeclareRequests == SeqsUpTo(AnyToolDefinitions, MaxBatch)

\* mcp.AddTool panics on a tool whose input schema it does not accept
AddToolPanics(toolDef) == toolDef.schema # GoodSchema
DeclareRequests == SeqsUpTo(ToolDefinitions, MaxBatch)
RemoveRequests == SeqsUpTo(ToolNames, MaxBatch)

\* the two requests of a client that declares and removes one tool
OneDeclare == {<<[name |-> "t1", desc |-> "d1", schema |-> GoodSchema]>>}
OneRemove == {<<"t1">>}

\* every name is reported as registered
DeclareEntryAlwaysRegistered(resp, exists, name) ==
    [resp EXCEPT !.Registered = Append(@, name)]

\* one iteration of DeclareTools' loop, on the response built so far
DeclareEntry(resp, exists, name) ==
    IF exists
    THEN [resp EXCEPT !.Updated = Append(@, name)]
    ELSE [resp EXCEPT !.Registered = Append(@, name)]

EmptyResponse == [Registered |-> << >>, Updated |-> << >>]

\* cfg.Tools.NotifyClientsOnChange after InitDefaults, which sets it whatever
\* was configured
NotifyClientsOnChange == TRUE

\* notifyToolsChanged: the sessions, of those in the registry, that are sent a
\* tools-changed signal; the function writes a log line and sends nothing
notifyToolsChanged(ss) == {}

\* what the end of DeclareTools or RemoveTools sends for n listed changes
NotifyIfChanged(n, ss) ==
    IF NotifyClientsOnChange /\ n > 0 THEN notifyToolsChanged(ss) ELSE {}

\* seen: the names DeclareTools calls listed so far, kept while no RemoveTools
\* call has been made (removed); pre: the registry's keys when the call began;
\* notified: the sessions the last finished call sent a tools-changed signal
IdleRpc ==
    [pc |-> "idle", req |-> << >>, names |-> << >>, i |-> 0, resp |-> EmptyResponse,
     pre |-> {}, seen |-> {}, removed |-> FALSE, notified |-> {}]

\* DeclareTools takes the write lock and resets the response
DeclareBegin(Requests) ==
    /\ rpc.pc = "idle"
    /\ CanLock(mu)
    /\ mu' = Lock(mu, RpcProc)
    /\ \E req \in Requests :
         rpc' = [rpc EXCEPT !.pc = "declare", !.req = req, !.i = 1,
                            !.resp = EmptyResponse, !.pre = MapKeys(tools)]
    /\ UNCHANGED <<authEnabled, tools, engine, sessions, now, conn, call, peer, collect, stdio, stop>>

\* a panic in AddTool unwinds DeclareTools (nothing in it recovers): the rest
\* of the loop does not run and no response is written
AfterAddToolPanic(r) == [r EXCEPT !.pc = "panicked"]

\* for _, toolDef := range req.Tools: one iteration; when AddTool panics the
\* deferred Unlock runs as the call unwinds
DeclareLoop ==
    /\ rpc.pc = "declare"
    /\ rpc.i <= Len(rpc.req)
    /\ LET toolDef == rpc.req[rpc.i]
           exists == MapHas(tools, toolDef.name)
       IN IF AddToolPanics(toolDef)
          THEN /\ rpc' = AfterAddToolPanic(rpc)
               /\ mu' = Unlock(mu, RpcProc)
               /\ UNCHANGED <<tools, engine>>
          ELSE /\ engine' = AddTool(engine, toolDef.name, toolDef.desc)
               /\ tools' = MapPut(tools, toolDef.name, toolDef.desc)
               /\ rpc' = [rpc EXCEPT !.i = @ + 1,
                                     !.resp = DeclareEntry(@, exists, toolDef.name)]
               /\ UNCHANGED mu
    /\ UNCHANGED <<authEnabled, sessions, now, conn, call, peer, collect, stdio, stop>>

\* the loop is over: notifyToolsChanged (a log line), unlock, return nil
DeclareEnd ==
    /\ rpc.pc = "declare"
    /\ rpc.i > Len(rpc.req)
    /\ mu' = Unlock(mu, RpcProc)
    /\ rpc' = [IdleRpc EXCEPT
                 !.removed = rpc.removed,
                 !.seen = IF rpc.removed THEN {}
                          ELSE rpc.seen \cup {rpc.req[j].name : j \in 1..Len(rpc.req)},
                 !.notified = NotifyIfChanged(Len(rpc.resp.Registered)
                                                + Len(rpc.resp.Updated),
                                              DOMAIN sessions)]
    /\ UNCHANGED <<authEnabled, tools, engine, sessions, now, conn, call, peer, collect, stdio, stop>>

\* RemoveTools takes the write lock
RemoveBegin(Requests) ==
    /\ rpc.pc = "idle"
    /\ CanLock(mu)
    /\ mu' = Lock(mu, RpcProc)
    /\ \E names \in Requests :
         rpc' = [rpc EXCEPT !.pc = "remove", !.names = names, !.i = 1,
                            !.pre = MapKeys(tools)]
    /\ UNCHANGED <<authEnabled, tools, engine, sessions, now, conn, call, peer, collect, stdio, stop>>

\* for _, name := range names { delete(s.plugin.tools, name) }: one iteration
RemoveLoop ==
    /\ rpc.pc = "remove"
    /\ rpc.i <= Len(rpc.names)
    /\ tools' = MapDelete(tools, rpc.names[rpc.i])
    /\ rpc' = [rpc EXCEPT !.i = @ + 1]
    /\ UNCHANGED <<authEnabled, mu, engine, sessions, now, conn, call, peer, collect, stdio, stop>>

\* the loop is over: notifyToolsChanged (a log line), unlock, return nil
RemoveEnd ==
    /\ rpc.pc = "remove"
    /\ rpc.i > Len(rpc.names)
    /\ mu' = Unlock(mu, RpcProc)
    /\ rpc' = [IdleRpc EXCEPT !.removed = TRUE,
                               !.notified = NotifyIfChanged(Len(rpc.names),
                                                            DOMAIN sessions)]
    /\ UNCHANGED <<authEnabled, tools, engine, sessions, now, conn, call, peer, collect, stdio, stop>>

(* ------------------- a second, concurrent RPC call -------------------- *)

PeerProc == "peer"
IdlePeer == [pc |-> "idle", names |-> << >>, i |-> 0]

\* RemoveTools, called by another client, takes the write lock
PeerRemoveBegin(Requests) ==
    /\ peer.pc = "idle"
    /\ CanLock(mu)
    /\ mu' = Lock(mu, PeerProc)
    /\ \E names \in Requests :
         peer' = [peer EXCEPT !.pc = "remove", !.names = names, !.i = 1]
    /\ UNCHANGED <<authEnabled, tools, engine, sessions, now, conn, call, rpc, collect, stdio, stop>>

\* for _, name := range names { delete(s.plugin.tools, name) }: one iteration
PeerRemoveLoop ==
    /\ peer.pc = "remove"
    /\ peer.i <= Len(peer.names)
    /\ tools' = MapDelete(tools, peer.names[peer.i])
    /\ peer' = [peer EXCEPT !.i = @ + 1]
    /\ UNCHANGED <<authEnabled, mu, engine, sessions, now, conn, call, rpc, collect, stdio, stop>>

\* the loop is over: unlock, return nil
PeerRemoveEnd ==
    /\ peer.pc = "remove"
    /\ peer.i > Len(peer.names)
    /\ mu' = Unlock(mu, PeerProc)
    /\ peer' = IdlePeer
    /\ UNCHANGED <<authEnabled, tools, engine, sessions, now, conn, call, rpc, collect, stdio, stop>>

\* RemoveTools, called by another client, calls Lock: it blocks there until
\* nobody holds the mutex
PeerLockCall(Requests) ==
    /\ peer.pc = "idle"
    /\ mu' = LockCall(mu, PeerProc)
    /\ \E names \in Requests :
         peer' = [peer EXCEPT !.pc = "lock", !.names = names]
    /\ UNCHANGED <<authEnabled, tools, engine, sessions, now, conn, call, rpc, collect, stdio, stop>>

\* ... and Lock returns
PeerLockAcquire ==
    /\ peer.pc = "lock"
    /\ CanLock(mu)
    /\ mu' = Lock(mu, PeerProc)
    /\ peer' = [peer EXCEPT !.pc = "remove", !.i = 1]
    /\ UNCHANGED <<authEnabled, tools, engine, sessions, now, conn, call, rpc, collect, stdio, stop>>

(* ------------------ metrics (StatsExporter.Collect) ------------------- *)

CollectProc == "collect"
\* toolsRegistered and the sum of activeSessions, as Collect last read them
IdleCollect == [pc |-> "idle", toolsRegistered |-> 0, activeSessions |-> 0]

\* Collect takes the read lock and reads len(p.tools) and p.sessions
CollectBegin ==
    /\ collect.pc = "idle"
    /\ CanRLock(mu)
    /\ mu' = RLock(mu, CollectProc)
    /\ collect' = [pc |-> "locked",
                   toolsRegistered |-> Cardinality(tools),
                   activeSessions |-> Cardinality(DOMAIN sessions)]
    /\ UNCHANGED <<authEnabled, tools, engine, sessions, now, conn, call, rpc, peer, stdio, stop>>

\* p.Workers(), called with the read lock held: the read lock is taken a
\* second time, which waits while a writer is blocked in Lock, and released
CollectWorkers ==
    /\ collect.pc = "locked"
    /\ CanRLock(mu)
    /\ collect' = [collect EXCEPT !.pc = "workers"]
    /\ UNCHANGED <<authEnabled, mu, tools, engine, sessions, now, conn, call, rpc, peer, stdio, stop>>

\* Collect returns: the deferred RUnlock
CollectEnd ==
    /\ collect.pc = "workers"
    /\ mu' = RUnlock(mu, CollectProc)
    /\ collect' = [collect EXCEPT !.pc = "idle"]
    /\ UNCHANGED <<authEnabled, tools, engine, sessions, now, conn, call, rpc, peer, stdio, stop>>

(* ---------------------------- Plugin.Stop ----------------------------- *)

StopProc == "stop"
IdleStop == [pc |-> "idle", ctxDone |-> FALSE]

\* the SSE connect handlers that have started and not returned
HandlersInFlight == {s \in SessionIds : conn[s].pc \notin {"idle", "closed", "refused"}}

\* the HTTP server accepts a connection and starts its handler, which it does
\* until Shutdown closes the listener
ConnAccept(s) ==
    /\ stop.pc = "idle"
    /\ ConnBegin(s)

\* Stop takes the write lock, cancels p.ctx and calls httpServer.Shutdown(ctx),
\* which closes the listener and waits for the handlers in flight
StopBegin ==
    /\ stop.pc = "idle"
    /\ CanLock(mu)
    /\ mu' = Lock(mu, StopProc)
    /\ stop' = [stop EXCEPT !.pc = "shutdown"]
    /\ UNCHANGED <<authEnabled, tools, engine, sessions, now, conn, call, rpc, peer,
                   collect, stdio>>

\* the context Stop was given expires
StopCtxExpire ==
    /\ stop.pc = "shutdown"
    /\ ~stop.ctxDone
    /\ stop' = [stop EXCEPT !.ctxDone = TRUE]
    /\ UNCHANGED <<authEnabled, mu, tools, engine, sessions, now, conn, call, rpc,
                   peer, collect, stdio>>

\* Shutdown returns, when no handler is in flight or when ctx is done (its
\* error is logged); Stop deletes every session, destroys the pool and
\* returns, releasing the lock
StopFinish ==
    /\ stop.pc = "shutdown"
    /\ HandlersInFlight = {} \/ stop.ctxDone
    /\ sessions' = [x \in {} |-> SessionInfo(x, "", "sse", 0)]
    /\ mu' = Unlock(mu, StopProc)
    /\ stop' = [stop EXCEPT !.pc = "stopped"]
    /\ UNCHANGED <<authEnabled, tools, engine, now, conn, call, rpc, peer, collect,
                   stdio>>

(* --------------------------- specification ---------------------------- *)

\* the plugin after Init and Serve: empty registries, nobody connected
InitBridge ==
    /\ authEnabled \in BOOLEAN
    /\ mu = [writer |-> None, readers |-> {}, pending |-> {}]
    /\ tools = {}
    /\ engine = {}
    /\ sessions = [x \in {} |-> SessionInfo(x, "", "sse", 0)]
    /\ now = 0
    /\ conn = [s \in SessionIds |-> IdleConn]
    /\ call = [c \in Calls |-> IdleCall]
    /\ rpc = IdleRpc
    /\ peer = IdlePeer
    /\ collect = IdleCollect
    /\ stop = IdleStop

\* ... configured as the README's full configuration has it
Init == InitBridge /\ stdio = IdleStdio

\* ... with auth.skip_for_stdio configured either way
InitStdioConfigured ==
    /\ InitBridge
    /\ stdio \in {[IdleStdio EXCEPT !.skipConfigured = b] : b \in BOOLEAN}

Next ==
    \/ \E s \in SessionIds :
         \/ ConnBegin(s)
         \/ ConnExec(s)
         \/ ConnAuthResult(s)
         \/ ConnTrack(s)
         \/ ConnDisconnect(s)
         \/ ConnRemove(s)
    \/ \E c \in Calls :
         \/ CallArrive(c)
         \/ CallTouch(c)
         \/ CallLookup(c)
         \/ CallExec(c)
         \/ CallResult(c)
         \/ CallReturn(c)
    \/ DeclareBegin(OneDeclare)
    \/ DeclareLoop
    \/ DeclareEnd
    \/ RemoveBegin(OneRemove)
    \/ RemoveLoop
    \/ RemoveEnd
    \/ Tick

Spec == Init /\ [][Next]_vars

\* the registry under an RPC client that makes every request, with one
\* connection (authentication disabled) and its tool calls
InitRegistry == Init /\ ~authEnabled

NextRegistry ==
    \/ ConnBegin("s1")
    \/ ConnTrack("s1")
    \/ ConnDisconnect("s1")
    \/ ConnRemove("s1")
    \/ \E c \in Calls :
         \/ CallArrive(c)
         \/ CallTouch(c)
         \/ CallLookup(c)
         \/ CallExec(c)
         \/ CallResult(c)
         \/ CallReturn(c)
    \/ DeclareBegin(DeclareRequests)
    \/ DeclareLoop
    \/ DeclareEnd
    \/ RemoveBegin(RemoveRequests)
    \/ RemoveLoop
    \/ RemoveEnd

SpecRegistry == InitRegistry /\ [][NextRegistry]_vars

\* one connection and its tool calls, whose contexts may be cancelled while
\* they wait. Every goroutine of the bridge keeps running (weak fairness of
\* its own steps); nothing obliges the pool to answer an Exec, the caller to
\* cancel, or a client to call or to disconnect.
NextDispatch ==
    \/ ConnBegin("s1")
    \/ ConnTrack("s1")
    \/ ConnDisconnect("s1")
    \/ ConnRemove("s1")
    \/ \E c \in Calls :
         \/ CallArrive(c)
         \/ CallTouch(c)
         \/ CallLookup(c)
         \/ CallExec(c)
         \/ CallCancel(c)
         \/ CallResult(c)
         \/ CallReturn(c)
    \/ DeclareBegin(OneDeclare)
    \/ DeclareLoop
    \/ DeclareEnd
    \/ Tick

FairDispatch ==
    /\ \A c \in Calls :
         /\ WF_vars(CallTouch(c))
         /\ WF_vars(CallLookup(c))
         /\ WF_vars(CallExec(c))
         /\ WF_vars(CallReturn(c))
    /\ WF_vars(ConnTrack("s1"))
    /\ WF_vars(ConnRemove("s1"))
    /\ WF_vars(DeclareLoop)
    /\ WF_vars(DeclareEnd)

SpecDispatch == InitRegistry /\ [][NextDispatch]_vars /\ FairDispatch

\* the batch of both tools, declared and removed whole
PairDeclare ==
    {<<[name |-> "t1", desc |-> "d1", schema |-> GoodSchema],
       [name |-> "t2", desc |-> "d1", schema |-> GoodSchema]>>}
PairRemove == {<<"t1", "t2">>}

\* two RPC clients that declare and remove the batch of both tools, next to
\* the readers of the registries: metrics collection and the tool calls of
\* one connection
NextAtomic ==
    \/ ConnBegin("s1")
    \/ ConnTrack("s1")
    \/ ConnDisconnect("s1")
    \/ ConnRemove("s1")
    \/ \E c \in Calls :
         \/ CallArrive(c)
         \/ CallTouch(c)
         \/ CallLookup(c)
         \/ CallExec(c)
         \/ CallResult(c)
         \/ CallReturn(c)
    \/ DeclareBegin(PairDeclare)
    \/ DeclareLoop
    \/ DeclareEnd
    \/ RemoveBegin(PairRemove)
    \/ RemoveLoop
    \/ RemoveEnd
    \/ PeerRemoveBegin(PairRemove)
    \/ PeerRemoveLoop
    \/ PeerRemoveEnd
    \/ CollectBegin
    \/ CollectWorkers
    \/ CollectEnd

SpecAtomic == InitRegistry /\ [][NextAtomic]_vars

\* the bridge on the stdio transport: its one connection and the tool calls
\* that come in on it
NextStdio ==
    \/ StdioBegin
    \/ StdioTrack
    \/ StdioReturn
    \/ StdioDisconnect
    \/ StdioRemove
    \/ \E c \in Calls :
         \/ CallArrive(c)
         \/ CallTouch(c)
         \/ CallLookup(c)
         \/ CallExec(c)
         \/ CallResult(c)
         \/ CallReturn(c)
    \/ DeclareBegin(OneDeclare)
    \/ DeclareLoop
    \/ DeclareEnd
    \/ Tick

SpecStdio == Init /\ [][NextStdio]_vars

\* the same under every configuration of auth.enabled and auth.skip_for_stdio
SpecStdioConfigured == InitStdioConfigured /\ [][NextStdio]_vars

\* an RPC client whose DeclareTools requests may hold malformed entries,
\* next to one connection and its tool calls
NextMalformed ==
    \/ ConnBegin("s1")
    \/ ConnTrack("s1")
    \/ ConnDisconnect("s1")
    \/ ConnRemove("s1")
    \/ \E c \in Calls :
         \/ CallArrive(c)
         \/ CallTouch(c)
         \/ CallLookup(c)
         \/ CallExec(c)
         \/ CallResult(c)
         \/ CallReturn(c)
    \/ DeclareBegin(AnyDeclareRequests)
    \/ DeclareLoop
    \/ DeclareEnd

SpecMalformed == InitRegistry /\ [][NextMalformed]_vars

\* one connection and its tool calls, answered with responses of up to
\* MaxItems content items of every type
NextContent ==
    \/ ConnBegin("s1")
    \/ ConnTrack("s1")
    \/ ConnDisconnect("s1")
    \/ ConnRemove("s1")
    \/ \E c \in Calls :
         \/ CallArrive(c)
         \/ CallTouch(c)
         \/ CallLookup(c)
         \/ CallExec(c)
         \/ CallResultOf(c, LongToolBodies)
         \/ CallReturn(c)
    \/ DeclareBegin(OneDeclare)
    \/ DeclareLoop
    \/ DeclareEnd

SpecContent == InitRegistry /\ [][NextContent]_vars

\* one connection and its tool calls, each answered by the pool with an
\* error or a response stream of up to MaxStream items
NextStream ==
    \/ ConnBegin("s1")
    \/ ConnTrack("s1")
    \/ ConnDisconnect("s1")
    \/ ConnRemove("s1")
    \/ \E c \in Calls :
         \/ CallArrive(c)
         \/ CallTouch(c)
         \/ CallLookup(c)
         \/ CallExec(c)
         \/ CallStreamResult(c)
         \/ CallReturn(c)
    \/ DeclareBegin(OneDeclare)
    \/ DeclareLoop
    \/ DeclareEnd

SpecStream == InitRegistry /\ [][NextStream]_vars

\* two connections with their handshakes, and tool calls each recorded with
\* the connection it came in on
NextAttribution ==
    \/ \E s \in SessionIds :
         \/ ConnBegin(s)
         \/ ConnExec(s)
         \/ ConnAuthResult(s)
         \/ ConnTrack(s)
         \/ ConnDisconnect(s)
         \/ ConnRemove(s)
    \/ \E c \in Calls :
         \/ CallArriveOn(c, Connected)
         \/ CallTouch(c)
         \/ CallLookup(c)
         \/ CallExec(c)
         \/ CallResult(c)
         \/ CallReturn(c)
    \/ DeclareBegin(OneDeclare)
    \/ DeclareLoop
    \/ DeclareEnd
    \/ Tick

SpecAttribution == Init /\ [][NextAttribution]_vars

\* metrics collection next to an RPC client whose RemoveTools calls wait in
\* Lock, one connection and its tool calls. Every goroutine of the bridge
\* keeps running (weak fairness of its own steps); nothing obliges the pool
\* to answer or a client to call, to scrape or to disconnect.
NextCollect ==
    \/ ConnBegin("s1")
    \/ ConnTrack("s1")
    \/ ConnDisconnect("s1")
    \/ ConnRemove("s1")
    \/ \E c \in Calls :
         \/ CallArrive(c)
         \/ CallTouch(c)
         \/ CallLookup(c)
         \/ CallExec(c)
         \/ CallResult(c)
         \/ CallReturn(c)
    \/ DeclareBegin(PairDeclare)
    \/ DeclareLoop
    \/ DeclareEnd
    \/ PeerLockCall(PairRemove)
    \/ PeerLockAcquire
    \/ PeerRemoveLoop
    \/ PeerRemoveEnd
    \/ CollectBegin
    \/ CollectWorkers
    \/ CollectEnd

FairCollect ==
    /\ \A c \in Calls :
         /\ WF_vars(CallTouch(c))
         /\ WF_vars(CallLookup(c))
         /\ WF_vars(CallExec(c))
         /\ WF_vars(CallReturn(c))
    /\ WF_vars(ConnTrack("s1"))
    /\ WF_vars(ConnRemove("s1"))
    /\ WF_vars(DeclareLoop)
    /\ WF_vars(DeclareEnd)
    /\ WF_vars(PeerLockAcquire)
    /\ WF_vars(PeerRemoveLoop)
    /\ WF_vars(PeerRemoveEnd)
    /\ WF_vars(CollectWorkers)
    /\ WF_vars(CollectEnd)

SpecCollect == InitRegistry /\ [][NextCollect]_vars /\ FairCollect

\* two SSE connections and a Stop of the plugin. Every goroutine of the
\* bridge keeps running, the pool answers every Exec and every client
\* disconnects in the end (weak fairness of these steps); nothing obliges a
\* client to connect, Stop to be called, or its context to expire.
NextStop ==
    \/ \E s \in SessionIds :
         \/ ConnAccept(s)
         \/ ConnExec(s)
         \/ ConnAuthResult(s)
         \/ ConnTrack(s)
         \/ ConnDisconnect(s)
         \/ ConnRemove(s)
    \/ StopBegin
    \/ StopCtxExpire
    \/ StopFinish

FairStop ==
    /\ \A s \in SessionIds :
         /\ WF_vars(ConnExec(s))
         /\ WF_vars(ConnAuthResult(s))
         /\ WF_vars(ConnTrack(s))
         /\ WF_vars(ConnDisconnect(s))
         /\ WF_vars(ConnRemove(s))
    /\ WF_vars(StopFinish)

SpecStop == Init /\ [][NextStop]_vars /\ FairStop

(* ------------------------------- claims ------------------------------- *)

Range(q) == {q[i] : i \in 1..Len(q)}

\* the dispatches blocked in pool.Exec or on its response stream
Waiting ==
    {s \in SessionIds : conn[s].pc = "wait"} \cup {c \in Calls : call[c].pc = "wait"}

\* the goroutines between a lock call and its unlock
InCritical ==
    {s \in SessionIds : conn[s].pc = "locked"}
    \cup {c \in Calls : call[c].pc = "locked"}
    \cup {p \in {RpcProc} : rpc.pc \in {"declare", "remove"}}

\* C1: a dispatch that waits for the worker pool holds neither side of the
\* registry lock; so while dispatches wait, and nobody else is inside a
\* critical section, DeclareTools, RemoveTools, trackSession, removeSession,
\* updateSessionActivity and the session lookup of another dispatch can all
\* take the lock.
C1_NoLockWhileWaiting ==
    /\ \A p \in Waiting : ~Holds(p)
    /\ (Waiting # {} /\ InCritical = {}) =>
         /\ ENABLED DeclareBegin(OneDeclare)
         /\ ENABLED RemoveBegin(OneRemove)
         /\ \A s \in SessionIds :
              /\ conn[s].pc = "track" => ENABLED ConnTrack(s)
              /\ conn[s].pc = "remove" => ENABLED ConnRemove(s)
              /\ (conn[s].pc = "idle" /\ authEnabled) => ENABLED ConnBegin(s)
         /\ \A c \in Calls :
              /\ call[c].pc = "touch" => ENABLED CallTouch(c)
              /\ call[c].pc = "lookup" => ENABLED CallLookup(c)

\* a connection's authentication dispatch waits for the pool while
\* DeclareTools is inside its loop, holding the write lock
C1_Witness ==
    \E s \in SessionIds :
        /\ conn[s].pc = "wait"
        /\ rpc.pc = "declare"
        /\ rpc.i > 1
        /\ mu.writer = RpcProc

\* a ToolCall envelope for session id s is with the worker pool
ToolCallSentFor(s) ==
    \E c \in Calls :
        /\ <<"X-MCP-Event", EventCallTool>> \in call[c].hdr
        /\ <<"X-Session-ID", s>> \in call[c].hdr

\* C3 (as claimed): a session whose SessionConnected dispatch was denied, or
\* failed, or returned an undecodable body is refused, is not in the session
\* registry, and no ToolCall envelope is sent to a worker for its id.
C3_RefusedSessionNeverServed ==
    \A s \in SessionIds :
        conn[s].pc = "refused" =>
            /\ s \notin DOMAIN sessions
            /\ ~ToolCallSentFor(s)

C5_CancelledContextNoExec ==
    \A c \in Calls :
        call[c].ctxDone =>
            /\ call[c].execs = 0
            /\ call[c].pc = "ret" => call[c].ret.err # << >>

\* C6 (as claimed): when Exec fails the tool call returns the failure and
\* has changed nothing in the tool registry or the session registry.
C6_ExecFailureChangesNothing ==
    \A c \in Calls :
        (call[c].pc = "ret" /\ call[c].kind = "execErr") =>
            /\ call[c].ret.result = {}
            /\ call[c].ret.err # << >>
            /\ call[c].wrote = "none"

\* C6 (amended): when Exec fails the tool call returns an error that wraps
\* the pool's failure, and of the two registries it has changed at most the
\* LastActivity of the session it names (set before the dispatch).
C6_ExecFailureFrame ==
    \A c \in Calls :
        (call[c].pc = "ret" /\ call[c].kind = "execErr") =>
            /\ call[c].ret.result = {}
            /\ Len(call[c].ret.err) = 4
            /\ call[c].ret.err[1] = "tool execution failed"
            /\ call[c].ret.err[3] = "worker execution failed"
            /\ call[c].wrote \in {"none", "lastActivity"}

\* a call returns the failure of Exec after its touch moved LastActivity
C6_Witness ==
    \E c \in Calls :
        /\ call[c].pc = "ret"
        /\ call[c].kind = "execErr"
        /\ call[c].wrote = "lastActivity"

ItemCarried(w, m) ==
    IF w.type = "image"
    THEN m.kind = "ImageContent" /\ m.Data = w.data /\ m.MIMEType = w.mimeType
    ELSE m.kind = "TextContent" /\ m.Text = w.text

\* C8: a decoded response with isError = true is returned as a result, with
\* a nil error, IsError true and the worker's content items.
C8_ToolErrorIsAResult ==
    \A c \in Calls :
        (/\ call[c].pc = "ret"
         /\ call[c].kind = "body"
         /\ call[c].body.valid
         /\ call[c].body.isError)
        => /\ call[c].ret.err = << >>
           /\ call[c].ret.result # {}
           /\ \A r \in call[c].ret.result :
                /\ r.IsError
                /\ Len(r.Content) = Len(call[c].body.content)
                /\ \A i \in 1..Len(r.Content) :
                     ItemCarried(call[c].body.content[i], r.Content[i])

\* a call returns a worker's isError response that has a content item
C8_Witness ==
    \E c \in Calls :
        /\ call[c].pc = "ret"
        /\ call[c].kind = "body"
        /\ call[c].body.valid
        /\ call[c].body.isError
        /\ Len(call[c].body.content) > 0
        /\ call[c].ret.result # {}

\* C10: updateSessionActivity on a session id that is not in the registry
\* returns and leaves the session registry as it was.
C10_TouchOfAbsentSession ==
    [][\A c \in Calls :
          (/\ call[c].pc = "touch"
           /\ call'[c].pc # "touch"
           /\ call[c].sid \notin DOMAIN sessions)
          => (call'[c].pc = "lookup" /\ sessions' = sessions)]_vars

\* a call that arrived for a tracked session has touched it after the
\* session was removed
C10_Witness ==
    \E c \in Calls :
        /\ call[c].pc = "lookup"
        /\ call[c].tracked
        /\ call[c].sid \notin DOMAIN sessions
        /\ call[c].wrote = "none"
        /\ now > 0

\* C2: without a RemoveTools call so far, a finished DeclareTools lists a
\* name as registered when no earlier call listed it, and as updated (and not
\* as registered) when an earlier call did; the registry never holds two
\* entries of one name.
C2_RegisteredThenUpdated ==
    /\ \A e1, e2 \in tools : e1.name = e2.name => e1 = e2
    /\ (rpc.pc = "declare" /\ rpc.i > Len(rpc.req) /\ ~rpc.removed) =>
         \A j \in 1..Len(rpc.req) :
            LET name == rpc.req[j].name
            IN IF name \in rpc.seen
               THEN /\ name \in Range(rpc.resp.Updated)
                    /\ name \notin Range(rpc.resp.Registered)
               ELSE name \in Range(rpc.resp.Registered)

\* a DeclareTools call that lists an old and a new name has finished
C2_Witness ==
    /\ rpc.pc = "declare"
    /\ rpc.i > Len(rpc.req)
    /\ ~rpc.removed
    /\ rpc.seen = {"t1"}
    /\ rpc.resp = [Registered |-> <<"t2">>, Updated |-> <<"t1">>]
    /\ [name |-> "t1", desc |-> "d2"] \in tools

\* C9 (as claimed): between RPC calls the tools the engine advertises and
\* routes are the keys of the tool registry.
C9_EngineMatchesRegistry ==
    rpc.pc = "idle" => EngineNames = MapKeys(tools)

\* C11: a RemoveTools iteration for a name the registry does not hold, and
\* the return of the call, leave the registry as it was; the call ends with
\* the lock released and no error (RemoveTools has no error return).
C11_RemoveAbsentIsNoOp ==
    [][(rpc.pc = "remove"
        /\ (rpc.i > Len(rpc.names) \/ ~MapHas(tools, rpc.names[rpc.i])))
       => /\ tools' = tools
          /\ rpc'.pc \in {"remove", "idle"}
          /\ (rpc'.pc = "idle" => mu'.writer = None)]_vars

\* RemoveTools has passed a name that was absent when the call began, and
\* the registry holds a tool
C11_Witness ==
    /\ rpc.pc = "remove"
    /\ rpc.i > Len(rpc.names)
    /\ Len(rpc.names) > 0
    /\ Range(rpc.names) \cap rpc.pre = {}
    /\ tools # {}

\* C12: with authentication disabled no connection makes the handshake (no
\* Exec, no SessionConnected envelope), none is refused, and a tracked
\* session has the empty token.
C12_AuthDisabledEmptyToken ==
    ~authEnabled =>
        \A s \in SessionIds :
            /\ conn[s].execs = 0
            /\ conn[s].hdr = {}
            /\ conn[s].pc \notin {"locked", "wait", "refused"}
            /\ conn[s].err = << >>
            /\ s \in DOMAIN sessions => sessions[s].Token = ""

\* with authentication disabled a connection is accepted and tracked
C12_Witness ==
    /\ ~authEnabled
    /\ \E s \in SessionIds :
         /\ conn[s].pc = "connected"
         /\ s \in DOMAIN sessions
         /\ sessions[s].Token = ""

C14_CancelledDispatchReturns ==
    \A c \in Calls :
        (call[c].pc = "wait" /\ call[c].ctxDone) ~> (call[c].pc = "ret")

\* C15: two RPC calls are never in progress together; while anyone holds the
\* read lock (the session lookup of a dispatch, metrics collection) no RPC
\* call is in progress; and what Collect read is the registry as it is, which
\* with tools declared and removed two at a time is never one tool.
C15_DeclareRemoveAtomic ==
    /\ ~(rpc.pc # "idle" /\ peer.pc # "idle")
    /\ mu.readers # {} => (rpc.pc = "idle" /\ peer.pc = "idle")
    /\ \A c \in Calls : call[c].pc = "locked" => c \in mu.readers
    /\ collect.pc # "idle" =>
         /\ CollectProc \in mu.readers
         /\ collect.toolsRegistered = Cardinality(tools)
         /\ collect.toolsRegistered \in {0, Cardinality(ToolNames)}

\* Collect and the session lookup of a dispatch hold the read lock together,
\* Collect has read both tools of the batch
C15_Witness ==
    /\ collect.pc = "locked"
    /\ collect.toolsRegistered = Cardinality(ToolNames)
    /\ \E c \in Calls : call[c].pc = "locked"

\* C16 (as claimed): while the connection is served its session id is in the
\* session registry, and once the connection has ended and its handler has
\* returned the id is absent, also when the transport setup failed.
C16_TrackedWhileConnected ==
    /\ StdioLive => StdioId \in DOMAIN sessions
    /\ stdio.pc = "closed" => StdioId \notin DOMAIN sessions

\* error texts of a second run of the pool
OtherRawTexts == RawTexts \cup {"bang"}

\* C17 (as claimed): what a tool call returns after a failed Exec or a
\* worker's error response is what it would have returned had the pool's or
\* the worker's error text been any other.
C17_ErrorIndependentOfWorkerText ==
    \A c \in Calls :
        (call[c].pc = "ret" /\ call[c].kind \in {"execErr", "respErr"}) =>
            \A raw \in OtherRawTexts :
                HandlerReturn(SendEventError(call[c].kind, raw), call[c].body)
                    = call[c].ret

\* C18 (as claimed): when a DeclareTools call is over, every entry of its
\* input that the engine accepts is in the engine, in the registry and in the
\* response, whatever other entries the input holds.
C18_OtherEntriesInstalled ==
    (rpc.pc = "panicked" \/ (rpc.pc = "declare" /\ rpc.i > Len(rpc.req))) =>
        \A j \in 1..Len(rpc.req) :
            ~AddToolPanics(rpc.req[j]) =>
                /\ rpc.req[j].name \in EngineNames
                /\ rpc.req[j].name \in MapKeys(tools)
                /\ rpc.req[j].name \in Range(rpc.resp.Registered) \cup Range(rpc.resp.Updated)

\* the calls that return after the worker sent a response that decodes
DecodedReturns ==
    {c \in Calls : call[c].pc = "ret" /\ call[c].kind = "body" /\ call[c].body.valid}

\* C19: a call whose decoded response holds an item that is neither text nor
\* image returns a result, with a nil error, in which that item is a text
\* item holding the item's text.
C19_UnknownTypeAsText ==
    \A c \in DecodedReturns :
        (\E i \in 1..Len(call[c].body.content) :
            call[c].body.content[i].type \notin {"text", "image"})
        => /\ call[c].ret.err = << >>
           /\ call[c].ret.result # {}
           /\ \A r \in call[c].ret.result :
                \A i \in 1..Len(call[c].body.content) :
                    call[c].body.content[i].type \notin {"text", "image"} =>
                        /\ i \in DOMAIN r.Content
                        /\ r.Content[i].kind = "TextContent"
                        /\ r.Content[i].Text = call[c].body.content[i].text

\* a call returns a response holding a resource item and an item of a type
\* the handler does not know
C19_Witness ==
    \E c \in DecodedReturns :
        /\ Len(call[c].body.content) = 2
        /\ call[c].body.content[1].type = "resource"
        /\ call[c].body.content[2].type = "audio"
        /\ \E r \in call[c].ret.result : r.Content[2].Text = "y"

\* C20: a call whose response decodes returns, with a nil error, one result
\* with as many items as the response, item by item in the response's order:
\* a text item with its text, an image item with its data and MIME type; and
\* IsError is the response's isError.
C20_ResultMirrorsResponse ==
    \A c \in DecodedReturns :
        /\ call[c].ret.err = << >>
        /\ Cardinality(call[c].ret.result) = 1
        /\ \A r \in call[c].ret.result :
             /\ r.IsError = call[c].body.isError
             /\ Len(r.Content) = Len(call[c].body.content)
             /\ \A i \in 1..Len(call[c].body.content) :
                  LET w == call[c].body.content[i]
                  IN /\ w.type = "text" =>
                          (r.Content[i].kind = "TextContent" /\ r.Content[i].Text = w.text)
                     /\ w.type = "image" =>
                          /\ r.Content[i].kind = "ImageContent"
                          /\ r.Content[i].Data = w.data
                          /\ r.Content[i].MIMEType = w.mimeType

\* a call returns a response of a text item followed by an image item
C20_Witness ==
    \E c \in DecodedReturns :
        /\ ~call[c].body.isError
        /\ Len(call[c].body.content) = 2
        /\ call[c].body.content[1].type = "text"
        /\ call[c].body.content[2].type = "image"
        /\ \E r \in call[c].ret.result : r.Content[2].kind = "ImageContent"

\* C21 (as claimed): when DeclareTools returns, the tools-changed signal has
\* been sent to the connected sessions if notification is enabled and the
\* call registered or updated a tool, and to nobody otherwise.
C21_ToolsChangedSignal ==
    [][(rpc.pc = "declare" /\ rpc'.pc = "idle") =>
         rpc'.notified =
            IF NotifyClientsOnChange
               /\ Len(rpc.resp.Registered) + Len(rpc.resp.Updated) > 0
            THEN Connected
            ELSE {}]_vars

\* C22: RemoveTools changes no invocation, and an invocation whose tool is
\* not in the registry goes through every stage as any other: session touch,
\* session lookup, one Exec on the pool, and the return of what the pool
\* answered (the worker's result, or the failure of the round trip).
C22_RoutedCallCompletes ==
    [][/\ (rpc.pc = "remove" /\ rpc' # rpc) => call' = call
       /\ \A c \in Calls :
            (/\ call[c].pc \notin {"idle", "ret"}
             /\ call[c].tool \notin MapKeys(tools)
             /\ call'[c] # call[c])
            => /\ call[c].pc = "touch" => call'[c].pc = "lookup"
               /\ call[c].pc = "lookup" => call'[c].pc = "locked"
               /\ call[c].pc = "locked" =>
                    (call'[c].pc = "wait" /\ call'[c].execs = 1)
               /\ call[c].pc = "wait" =>
                    /\ call'[c].pc = "ret"
                    /\ call'[c].execs = 1
                    /\ call'[c].kind = "body" =>
                         call'[c].ret = HandlerReturn(<< >>, call'[c].body)
                    /\ call'[c].kind # "body" => call'[c].ret.err # << >>]_vars

\* RemoveTools has removed the tool of an invocation that was waiting for the
\* pool when the call began
C22_Witness ==
    /\ rpc.pc = "remove"
    /\ rpc.i > Len(rpc.names)
    /\ \E c \in Calls :
         /\ call[c].pc = "wait"
         /\ call[c].tool \in rpc.pre
         /\ call[c].tool \in Range(rpc.names)
         /\ call[c].tool \notin MapKeys(tools)

\* C23: the touch of an invocation sets the LastActivity of the session it
\* names, when the registry holds it, to the present time, and comes before
\* the Exec on the pool; no later step of the invocation, whatever the pool
\* answers, changes the session registry.
C23_TouchBeforeDispatch ==
    [][\A c \in Calls :
         /\ (call[c].pc = "touch" /\ call'[c].pc # "touch") =>
              /\ call'[c].pc = "lookup"
              /\ call'[c].execs = 0
              /\ call[c].sid \in DOMAIN sessions =>
                   sessions' = [sessions EXCEPT ![call[c].sid].LastActivity = now]
         /\ call'[c].execs > call[c].execs => call[c].pc = "locked"
         /\ (call[c].pc \in {"lookup", "locked", "wait", "ret"} /\ call'[c] # call[c])
              => sessions' = sessions]_vars

\* an invocation whose touch moved the LastActivity of its session returns
\* after a response that does not decode, the session still in the registry
C23_Witness ==
    \E c \in Calls :
        /\ call[c].pc = "ret"
        /\ call[c].kind = "body"
        /\ ~call[c].body.valid
        /\ call[c].wrote = "lastActivity"
        /\ \E s \in DOMAIN sessions : sessions[s].LastActivity = now /\ now > 0

\* C24 (as claimed): in the response DeclareTools builds no name is both in
\* Registered and in Updated, and every name in Updated was a key of the
\* registry when the call began.
C24_RegisteredUpdatedPartition ==
    rpc.pc = "declare" =>
        /\ Range(rpc.resp.Registered) \cap Range(rpc.resp.Updated) = {}
        /\ Range(rpc.resp.Updated) \subseteq rpc.pre

\* C25: sendEvent returns either a body or an error, never both and never
\* neither: the body of the first item of the stream when Exec succeeded and
\* that item is no error, an error in every other case; and it takes at most
\* the first item from the stream.
C25_ExactlyOneOutcome ==
    \A c \in Calls :
        call[c].pc = "ret" =>
            /\ call[c].execs = 1
            /\ Cardinality(call[c].exec) = 1
            /\ \A e \in call[c].exec :
                 LET first == /\ ~e.out.failed
                              /\ e.out.items # << >>
                              /\ ~e.out.items[1].isErr
                 IN /\ (e.sent.body = {}) # (e.sent.err = << >>)
                    /\ first => e.sent.body = {e.out.items[1].body}
                    /\ ~first => e.sent.err # << >>
                    /\ e.sent.read <= 1
                    /\ e.sent.read <= Len(e.out.items)

\* sendEvent has returned the body of the first item of a stream whose second
\* item is an error
C25_Witness ==
    \E c \in Calls :
        /\ call[c].pc = "ret"
        /\ \E e \in call[c].exec :
             /\ Len(e.out.items) = 2
             /\ ~e.out.items[1].isErr
             /\ e.out.items[1].body.valid
             /\ e.out.items[2].isErr
             /\ e.sent.body = {e.out.items[1].body}
             /\ e.sent.read = 1

\* C26 (as claimed): an invocation that came in on one connection leaves the
\* registry entry of every other connection's tracked session as it was when
\* it touches, does not read that entry for the token, and its envelope does
\* not carry that session's id.
C26_AttributedToOwnConnection ==
    [][\A c \in Calls, b \in SessionIds :
         (call[c].on \in SessionIds /\ b # call[c].on /\ b \in DOMAIN sessions) =>
            /\ (call[c].pc = "touch" /\ call'[c].pc = "lookup")
                 => (b \in DOMAIN sessions' /\ sessions'[b] = sessions[b])
            /\ (call[c].pc = "lookup" /\ call'[c].pc = "locked")
                 => \A i \in call'[c].info : i.ID # b
            /\ (call[c].pc = "locked" /\ call'[c].pc = "wait")
                 => <<"X-Session-ID", b>> \notin call'[c].hdr]_vars

\* C27 (as claimed): serveStdio goes on to authenticate its session, before
\* it tracks it, exactly when authentication is enabled and skip_for_stdio is
\* configured false; otherwise it tracks the session with no dispatch.
C27_StdioAuthFollowsFlag ==
    [][(stdio.pc = "idle" /\ stdio'.pc # "idle") =>
         ((stdio'.pc = "auth") <=> (authEnabled /\ ~stdio.skipConfigured))]_vars

\* C28 (as claimed): a metrics collection that has begun completes, whatever
\* writers of the registries are waiting for the lock.
C28_CollectCompletes == (collect.pc # "idle") ~> (collect.pc = "idle")

\* C29 (as claimed): a Stop that has begun returns, also when its context
\* never expires.
C29_StopCompletes == (stop.pc = "shutdown") ~> (stop.pc = "stopped")

\* C30 (as claimed): once Stop has returned the session registry is empty.
C30_EmptyAfterStop == stop.pc = "stopped" => DOMAIN sessions = {}

====
